---- MODULE Spec2Model ----
(***************************************************************************)
(* A model of SDMS: the HPSS crawler (crawlerHPSS.py), the XRD crawler     *)
(* (crawlerXRD.py) and the stager (stagerSDMS.py), with the MongoDB        *)
(* collections they share.                                                 *)
(*                                                                         *)
(* Collections are sequences of documents (a collection may hold equal     *)
(* documents twice); documents are records.  A key that a Python document  *)
(* does not carry has the value Absent.                                    *)
(*                                                                         *)
(* Paths are sequences of segments ("/nersc/picodsts/Run10/149/a" is       *)
(* <<"nersc","picodsts","Run10","149","a">>).  String tests of the code    *)
(* (endswith, find("/Run")) are tables over the file names of the model.   *)
(***************************************************************************)
EXTENDS Integers, Sequences, FiniteSets, TLC

\* A key a document does not carry (a path-valued key: the empty path), and
\* Python's None where a document is expected (the empty sequence).
Absent == <<>>
None == <<>>

\* ------------------------------------------------------------------ bounds
\* _parseSubFolder calls made in all (by all crawler processes together)
MaxCrawls == 2
\* days the clock can advance (self._today of a later run)
MaxDay == 2
\* distinct byte sizes a listing can report for one file
NSizes == 2

\* the crawler processes running against the same store
Crawlers == {"c1", "c2"}
Sizes == 1..NSizes

\* --------------------------------------------------------- sequence helpers
Range(s) == {s[i] : i \in DOMAIN s}

\* list.remove(x): drops the first element equal to x
RECURSIVE RemoveFirst(_, _)
RemoveFirst(s, x) ==
  IF s = <<>> THEN <<>>
  ELSE IF Head(s) = x THEN Tail(s)
  ELSE <<Head(s)>> \o RemoveFirst(Tail(s), x)

\* ---------------------------------------------------------------- the tape
\* File names of the model and the suffixes each ends with (str.endswith).
SuffixesOf(name) ==
  CASE name = "149.tar"        -> {".tar"}
    [] name = "149.tar.idx"    -> {".idx"}
    [] name = "a.picoDst.root" -> {".picoDst.root", ".root"}
    [] name = "b.picoDst.root" -> {".picoDst.root", ".root"}
    [] name = "a.log"          -> {".log"}
    [] OTHER                   -> {}

EndsWith(name, suffix) == suffix \in SuffixesOf(name)

\* Segments that begin with "Run" (the target of fileFullPath.find("/Run")).
StartsWithRun(seg) == seg \in {"Run10", "Run11"}

\* `hsi -q ls -lR subFolder`: the lines of a listing, already split into the
\* block (directory) they stand in.  kind "d" is a directory line.
Listing(subFolder) ==
  CASE subFolder = "picodsts" ->
         << [block |-> <<"nersc", "picodsts", "Run10">>, name |-> "149", kind |-> "d"],
            [block |-> <<"nersc", "picodsts", "Run10">>, name |-> "149.tar", kind |-> "-"],
            [block |-> <<"nersc", "picodsts", "Run10", "149">>, name |-> "a.picoDst.root", kind |-> "-"] >>
    [] subFolder = "picoDST" ->
         << [block |-> <<"nersc", "picoDST", "Run10", "149">>, name |-> "a.picoDst.root", kind |-> "-"] >>

SubFolders == {"picodsts", "picoDST"}

\* `htar -tf tar`: the entries of a tar file, with the size htar reports.
TarListing(tarFullPath) ==
  IF tarFullPath = <<"nersc", "picodsts", "Run10", "149.tar">>
  THEN << [fileFullPath |-> <<"project", "picodsts", "Run10", "149", "a.picoDst.root">>, fileSize |-> 3],
          [fileFullPath |-> <<"project", "picodsts", "Run10", "149", "b.picoDst.root">>, fileSize |-> 3],
          [fileFullPath |-> <<"project", "picodsts", "Run10", "149", "a.log">>, fileSize |-> 3] >>
  ELSE <<>>

\* ------------------------------------------------------------------- state
VARIABLES
  clock,              \* the date (datetime.today())
  collHpssFiles,      \* HPSS_Files
  collHpssPicoDsts,   \* HPSS_PicoDsts (unique _id)
  collHpssDuplicates, \* HPSS_Duplicates
  pc,                 \* per crawler: "idle", "scan", "crashed"
  today,              \* per crawler: self._today
  folder,             \* per crawler: the subFolder being parsed
  pos,                \* per crawler: next line of the listing
  listPicoDsts,       \* per crawler: the local list of _parseSubFolder
  nCrawls,            \* _parseSubFolder calls started so far
  insertedBy,         \* history: per full path, the crawlers whose upsert returned None
  lastUpsert,         \* history: the last find_one_and_update call (doc, ret, day)
  ingestLog,          \* history: the documents handed to finished _insertPicoDsts calls
  lastInsert          \* history: the last finished _insertPicoDsts call

VARIABLES
  stagingFile,        \* the staging file: the list under "sets"
  sets,               \* self._sets
  spc,                \* "off", "reset", "mark", "diff", "done", "crashed", "cancelled"
  setIdx,             \* the index of stageSet in the loop of markFilesToBeStaged
  tierIdx,            \* the index of the stageTarget handed to prepareListOfFilesToBeStaged
  targetField,        \* self._targetField
  collSel,            \* self._coll, as the <<target, stageTarget>> it was taken from
  collsStage,         \* self._collsStage: <<target, stageTarget>> -> collection
  collsXRDNew,        \* self._collsXRDNew: target -> collection
  passNo,             \* runs of the stager started so far
  setLog,             \* history: what _prepareSet returned for each set of this run
  markLog,            \* history: <<target, stageTarget, filePath>> marked true in this run
  diffOut,            \* history: run -> <<target, stageTarget>> -> docsToStage, docsToRemove
  flaggedLog,         \* history: run -> the documents its update at line 226 matched
  runEnds             \* history: run -> "running", "done", or what ended it

\* crawlerXRD.process(target) on one storage node
VARIABLES
  xrdTarget,          \* the argument of process()
  workDirExists,      \* os.path.isdir(self._workDir)
  collsXRD,           \* self._colls[target]: XRD_<Target>
  collsNew,           \* self._collsNew[target]: XRD_<Target>_new
  collsMiss,          \* self._collsMiss[target]: XRD_<Target>_miss
  walk,               \* the files os.walk yields, each with the state of its link
  xpc,                \* "idle", "walk", "done", "TypeError"
  walkPos,            \* index in walk of the next file
  listOfFilesOnNode,
  listOfNewFiles,
  believed,           \* history: listOfFilesOnNode as the find of line 95 gave it
  queuedNew,          \* history: the arguments of insert_many on _collsNew
  queuedMiss          \* history: the arguments of insert_many on _collsMiss

\* hpssUtil._makePicoDstDoc, lines 253-275: the starDetails of one file
VARIABLES
  pathKeysSchema,     \* the keys of __init__'s pathKeysSchema, each split at '%'
  cleanPathTokenized, \* doc['filePath'].split('/'), every token a sequence of characters
  rpc,                \* "off", "idle", "done", "ValueError", "KeyError"
  docStarDetails      \* the sub document, a function from key to typed value

\* two stager processes at the same time on the same collections
VARIABLES
  runs                \* per process: where it is, and its stager object

\* the staging file edited between two runs of the stager
VARIABLES
  marksLeft           \* history: the run before the edit and the marks it left

varsStager == <<stagingFile, sets, spc, setIdx, tierIdx, targetField, collSel, collsStage,
                collsXRDNew, passNo, setLog, markLog, diffOut, flaggedLog, runEnds>>

varsHPSS == <<clock, collHpssFiles, collHpssPicoDsts, collHpssDuplicates, pc, today,
              folder, pos, listPicoDsts, nCrawls, insertedBy, lastUpsert, ingestLog,
              lastInsert>>

varsXRD == <<xrdTarget, workDirExists, collsXRD, collsNew, collsMiss, walk, xpc, walkPos,
             listOfFilesOnNode, listOfNewFiles, believed, queuedNew, queuedMiss>>

varsResolver == <<pathKeysSchema, cleanPathTokenized, rpc, docStarDetails>>

varsPar == <<runs>>

varsOrder == <<marksLeft>>

vars == <<varsHPSS, varsStager, varsXRD, varsResolver, varsPar, varsOrder>>

\* ------------------------------------------------------------ crawlerHPSS
\* _parseLine: full path, size and type of one listing line
ParseLine(currentBlockPath, fileName, fileSize) ==
  [fileFullPath |-> Append(currentBlockPath, fileName),
   fileSize |-> fileSize,
   fileType |-> IF EndsWith(fileName, ".tar") THEN "tar"
                ELSE IF EndsWith(fileName, ".idx") THEN "idx"
                ELSE IF EndsWith(fileName, ".picoDst.root") THEN "picoDst"
                ELSE "other"]

\* fileFullPath.find("/Run") + 1, as a segment index; find gives -1 when
\* there is none, and the slice then starts at 0: the whole path.
IdxBasePath(fileFullPath) ==
  LET hits == {i \in DOMAIN fileFullPath : StartsWithRun(fileFullPath[i])}
  IN IF hits = {} THEN 1 ELSE CHOOSE i \in hits : \A j \in hits : i <= j

\* _makePicoDstDoc (the starDetails sub-document is not modelled here)
MakePicoDstDoc(fileFullPath, fileSize, hpssDoc, isInTarFile) ==
  LET rel == SubSeq(fileFullPath, IdxBasePath(fileFullPath), Len(fileFullPath))
  IN [id |-> rel,
      filePath |-> rel,
      fileFullPath |-> fileFullPath,
      fileSize |-> fileSize,
      dataClass |-> "picoDst",
      isInTarFile |-> isInTarFile,
      stageMarkerXRD |-> FALSE,
      fileFullPathTar |-> IF isInTarFile THEN hpssDoc.fileFullPath ELSE Absent]

\* _parseTarFile: the picoDst documents of the entries of a tar file
RECURSIVE ParseTarLines(_, _)
ParseTarLines(lines, hpssDoc) ==
  IF lines = <<>> THEN <<>>
  ELSE LET e == Head(lines)
           name == e.fileFullPath[Len(e.fileFullPath)]
       IN (IF EndsWith(name, ".picoDst.root")
           THEN <<MakePicoDstDoc(e.fileFullPath, e.fileSize, hpssDoc, TRUE)>>
           ELSE <<>>) \o ParseTarLines(Tail(lines), hpssDoc)

ParseTarFile(hpssDoc) == ParseTarLines(TarListing(hpssDoc.fileFullPath), hpssDoc)

\* ------------------------------------------------------------- the store
\* find_one_and_update({'fileFullPath': p}, {'$set': {'lastSeen': today},
\* '$setOnInsert': doc}, upsert=True): one atomic step of the store.  ret is
\* the document before the update (a sequence holding it), None when it was
\* inserted.
Matches(coll, fileFullPath) == {i \in DOMAIN coll : coll[i].fileFullPath = fileFullPath}

\* the update written as {'$set': doc + lastSeen}: a hit takes the new size
FindOneAndUpdateSetsDoc(coll, doc, day) ==
  LET hit == Matches(coll, doc.fileFullPath)
      new == [fileFullPath |-> doc.fileFullPath, fileSize |-> doc.fileSize,
              fileType |-> doc.fileType, lastSeen |-> day]
  IN IF hit = {}
     THEN [coll |-> Append(coll, new), ret |-> None]
     ELSE LET i == CHOOSE k \in hit : \A j \in hit : k <= j
          IN [coll |-> [coll EXCEPT ![i] = new], ret |-> <<coll[i]>>]

\* the filter written as the whole parsed document: a known path seen with
\* another size is no hit
FindOneAndUpdateByDoc(coll, doc, day) ==
  LET hit == {i \in DOMAIN coll : /\ coll[i].fileFullPath = doc.fileFullPath
                                  /\ coll[i].fileSize = doc.fileSize
                                  /\ coll[i].fileType = doc.fileType}
  IN IF hit = {}
     THEN [coll |-> Append(coll, [fileFullPath |-> doc.fileFullPath,
                                  fileSize |-> doc.fileSize,
                                  fileType |-> doc.fileType,
                                  lastSeen |-> day]),
           ret |-> None]
     ELSE LET i == CHOOSE k \in hit : \A j \in hit : k <= j
          IN [coll |-> [coll EXCEPT ![i].lastSeen = day], ret |-> <<coll[i]>>]

\* the same write with its result dropped: the caller sees None for a known
\* path as for a new one
FindOneAndUpdateNoRet(coll, doc, day) ==
  LET hit == Matches(coll, doc.fileFullPath)
  IN IF hit = {}
     THEN [coll |-> Append(coll, [fileFullPath |-> doc.fileFullPath,
                                  fileSize |-> doc.fileSize,
                                  fileType |-> doc.fileType,
                                  lastSeen |-> day]),
           ret |-> None]
     ELSE LET i == CHOOSE k \in hit : \A j \in hit : k <= j
          IN [coll |-> [coll EXCEPT ![i].lastSeen = day], ret |-> None]

FindOneAndUpdate(coll, doc, day) ==
  LET hit == Matches(coll, doc.fileFullPath)
  IN IF hit = {}
     THEN [coll |-> Append(coll, [fileFullPath |-> doc.fileFullPath,
                                  fileSize |-> doc.fileSize,
                                  fileType |-> doc.fileType,
                                  lastSeen |-> day]),
           ret |-> None]
     ELSE LET i == CHOOSE k \in hit : \A j \in hit : k <= j
          IN [coll |-> [coll EXCEPT ![i].lastSeen = day], ret |-> <<coll[i]>>]

\* insert_many(docs, ordered=False) on a collection with a unique _id: every
\* document is tried; one whose _id is taken is a write error.  pymongo
\* raises BulkWriteError after the batch when there was any write error.
RECURSIVE InsertMany(_, _)
InsertMany(coll, docs) ==
  IF docs = <<>> THEN [coll |-> coll, insertedIds |-> <<>>, writeErrors |-> <<>>]
  ELSE LET d == Head(docs)
           taken == \E i \in DOMAIN coll : coll[i].id = d.id
           rest == InsertMany(IF taken THEN coll ELSE Append(coll, d), Tail(docs))
       IN [coll |-> rest.coll,
           insertedIds |-> (IF taken THEN <<>> ELSE <<d.id>>) \o rest.insertedIds,
           writeErrors |-> (IF taken THEN <<d>> ELSE <<>>) \o rest.writeErrors]

\* lines 300-303: for each inserted id, drop the first document with that id
RECURSIVE RemoveInserted(_, _)
RemoveInserted(listDocs, insertedIds) ==
  IF insertedIds = <<>> THEN listDocs
  ELSE LET hit == {i \in DOMAIN listDocs : listDocs[i].id = Head(insertedIds)}
           rest == IF hit = {} THEN listDocs
                   ELSE RemoveFirst(listDocs, listDocs[CHOOSE i \in hit : \A j \in hit : i <= j])
       IN RemoveInserted(rest, Tail(insertedIds))

\* lines 306-307: entry.pop('_id', None)
PopId(listDocs) == [i \in DOMAIN listDocs |-> [listDocs[i] EXCEPT !.id = Absent]]

\* _insertPicoDsts: the collections after the call, and whether it raised
InsertPicoDstsResult(picoDsts, duplicates, listDocs) ==
  IF listDocs = <<>>
  THEN [picoDsts |-> picoDsts, duplicates |-> duplicates, raised |-> FALSE]
  ELSE LET ret == InsertMany(picoDsts, listDocs)
       IN IF ret.writeErrors # <<>>
          THEN \* BulkWriteError leaves line 296; nothing below runs
               [picoDsts |-> ret.coll, duplicates |-> duplicates, raised |-> TRUE]
          ELSE LET left == PopId(RemoveInserted(listDocs, ret.insertedIds))
               IN [picoDsts |-> ret.coll,
                   duplicates |-> duplicates \o left,
                   raised |-> FALSE]

\* ------------------------------------------------------------- stagerSDMS
\* The file as shipped does not compile (lines 211, 226, 231-232) and names
\* two attributes that nothing defines: self._collStage (lines 132, 142) and
\* self._collsXRDNew (line 215).  The model follows the statements as
\* written: _collStage is read as the registry _collsStage that
\* _addCollections builds, _collsXRDNew is a registry of its own, line 226 is
\* the filter {'filePath': {'$in': docsToRemove}}, and main hands each
\* stageTarget of the list to prepareListOfFilesToBeStaged.
ListOfStageTargets == <<"XRD", "Disk">>

ListOfQueryItems ==
  {"runyear", "system", "energy", "trigger", "production", "day", "runnumber", "stream"}

ListOfTargets == <<"picoDst", "picoDstJet", "aschmah">>

\* the keys of self._collsStage
StageKeys == {<<t, st>> : t \in Range(ListOfTargets), st \in Range(ListOfStageTargets)}

\* 'staging.stageMarker{0}'.format(stageTarget)
StageMarkerField(stageTarget) == "staging.stageMarker" \o stageTarget

StageMarkerFields == {StageMarkerField(st) : st \in Range(ListOfStageTargets)}

\* 'starDetails.' + key
StarKey(key) == "starDetails." \o key

\* "starDetails." in key, for the keys of the model
ContainsStarDetails(key) == key \in {StarKey(k) : k \in ListOfQueryItems \cup {"foo"}}

\* dictionaries are functions from keys to values
Del(d, key) == [k \in DOMAIN d \ {key} |-> d[k]]

\* the dictionary after `del(stageSet[key]); stageSet['starDetails.'+key] = value`
\* has run for every key of R
RewriteKeys(stageSet, R) ==
  [k2 \in (DOMAIN stageSet \ R) \cup {StarKey(k) : k \in R} |->
     IF \E k \in R : StarKey(k) = k2
     THEN stageSet[CHOOSE k \in R : StarKey(k) = k2]
     ELSE stageSet[k2]]

\* Lines 185-193: the loop over stageSet.items(), which deletes and adds keys
\* of the dictionary it iterates.  Python leaves the outcome of that open
\* ("may raise a RuntimeError or fail to iterate over all entries"): the loop
\* may visit every key, may raise RuntimeError after a rewrite (CPython 3.8
\* and later: "dictionary keys changed during iteration"), or may miss keys
\* after a rewrite has resized the table.  A set without a bare recognized
\* key is never changed and is iterated in full.
KeyLoop(stageSet) ==
  LET bare == {k \in DOMAIN stageSet : ~ContainsStarDetails(k)}
      good == bare \cap ListOfQueryItems
      bad == bare \ good
      some == SUBSET good \ {{}}
  IN IF good = {}
     THEN {[ret |-> IF bad # {} THEN "False" ELSE "True", stageSet |-> stageSet]}
     ELSE (IF bad # {}
           THEN {[ret |-> "False", stageSet |-> RewriteKeys(stageSet, R)] : R \in SUBSET good}
           ELSE {[ret |-> "True", stageSet |-> RewriteKeys(stageSet, good)]})
          \cup {[ret |-> "RuntimeError", stageSet |-> RewriteKeys(stageSet, R)] : R \in some}
          \cup {[ret |-> "True", stageSet |-> RewriteKeys(stageSet, R)] :
                  R \in {S \in some : (good \ S) \cup bad # {}}}

\* _prepareSet with lines 160 and 173 assigning only what is still unset: a
\* field or collection that an earlier set selected stays
PrepareSetKeepsSelection(stageSet, tf, cs) ==
  LET rejected(tf2) == {[ret |-> "False", stageSet |-> stageSet, targetField |-> tf2, coll |-> cs]}
  IN IF "stageTarget" \notin DOMAIN stageSet THEN rejected(tf)
     ELSE IF stageSet["stageTarget"] \notin Range(ListOfStageTargets) THEN rejected(tf)
     ELSE LET stageTarget == stageSet["stageTarget"]
              tf2 == IF tf = "" THEN StageMarkerField(stageTarget) ELSE tf
          IN IF "target" \notin DOMAIN stageSet THEN rejected(tf2)
             ELSE IF stageSet["target"] \notin Range(ListOfTargets) THEN rejected(tf2)
             ELSE {[ret |-> o.ret, stageSet |-> o.stageSet, targetField |-> tf2,
                    coll |-> IF cs = <<>> THEN <<stageSet["target"], stageTarget>> ELSE cs] :
                     o \in KeyLoop(Del(Del(stageSet, "target"), "stageTarget"))}

\* _prepareSet: what it may return ("RuntimeError": it raised), with the
\* stageSet, self._targetField and self._coll it leaves behind
PrepareSet(stageSet, tf, cs) ==
  LET rejected(tf2) == {[ret |-> "False", stageSet |-> stageSet, targetField |-> tf2, coll |-> cs]}
  IN IF "stageTarget" \notin DOMAIN stageSet THEN rejected(tf)
     ELSE IF stageSet["stageTarget"] \notin Range(ListOfStageTargets) THEN rejected(tf)
     ELSE LET stageTarget == stageSet["stageTarget"]
              tf2 == StageMarkerField(stageTarget)
          IN IF "target" \notin DOMAIN stageSet THEN rejected(tf2)
             ELSE IF stageSet["target"] \notin Range(ListOfTargets) THEN rejected(tf2)
             ELSE {[ret |-> o.ret, stageSet |-> o.stageSet, targetField |-> tf2,
                    coll |-> <<stageSet["target"], stageTarget>>] :
                     o \in KeyLoop(Del(Del(stageSet, "target"), "stageTarget"))}

\* the value a document of a staging collection has under a key of a filter
DocValue(doc, key) == IF key = "starDetails.runyear" THEN doc.runyear ELSE "<no such key>"

DocMatches(doc, filter) == \A k \in DOMAIN filter : DocValue(doc, k) = filter[k]

\* coll.update_many(stageSet, {'$set': {self._targetField: True}})
UpdateManyMark(coll, stageSet, field) ==
  [i \in DOMAIN coll |->
     IF DocMatches(coll[i], stageSet)
     THEN [coll[i] EXCEPT !.staging = [f \in DOMAIN @ \cup {field} |->
                                         IF f = field THEN "True" ELSE @[f]]]
     ELSE coll[i]]

\* _resetAllStagingMarks: coll.update_many({}, {'$set': {targetField: False}})
\* on every collection of the registry
ResetAllStagingMarks(colls) ==
  [key \in DOMAIN colls |->
     [i \in DOMAIN colls[key] |->
        [colls[key][i] EXCEPT !.staging =
           [f \in DOMAIN @ \cup {StageMarkerField(key[2])} |->
              IF f = StageMarkerField(key[2]) THEN "False" ELSE @[f]]]]]

\* self._collsHPSS[target]: HPSS_PicoDsts is the collection of the crawler;
\* nothing in the repository writes HPSS_PicoDstsJets or HPSS_ASchmah
CollsHPSS(picoDsts, target) == IF target = "picoDst" THEN picoDsts ELSE <<>>

\* the value of a staging key in a document of the crawler (line 247)
HpssStaging(doc, field) ==
  IF field = "staging.stageMarkerXRD" THEN doc.stageMarkerXRD ELSE FALSE

\* lines 211-212: find({'dataClass': target, stageField: True}), as filePaths
DocsSetHPSS(picoDsts, target, stageField) ==
  {d.filePath : d \in {x \in Range(CollsHPSS(picoDsts, target)) :
                         x.dataClass = target /\ HpssStaging(x, stageField)}}

\* lines 215-217: find({'storage.location': stageTarget, 'dataClass': target})
DocsSetStaged(xrdNew, target, stageTarget) ==
  {d.filePath : d \in {x \in Range(xrdNew[target]) :
                         x.location = stageTarget /\ x.dataClass = target}}

\* line 220
DocsToStage(docsSetHPSS, docsSetStaged) == docsSetHPSS \ docsSetStaged

\* the operands of line 220 copied to line 223
DocsToRemoveCopied(docsSetHPSS, docsSetStaged) == docsSetHPSS \ docsSetStaged

\* line 223
DocsToRemove(docsSetHPSS, docsSetStaged) == docsSetStaged \ docsSetHPSS

\* the flagged documents deleted at once
DeleteUnstaged(coll, docsToRemove) ==
  LET Keep(d) == d.filePath \notin docsToRemove IN SelectSeq(coll, Keep)

\* the update of line 226 with the empty filter: every document is flagged
FlagAll(coll, docsToRemove) == [i \in DOMAIN coll |-> [coll[i] EXCEPT !.unStageFlag = TRUE]]

\* lines 226-227: update_many({'filePath': {'$in': docsToRemove}},
\* {'$set': {'unStageFlag': True}})
FlagUnstage(coll, docsToRemove) ==
  [i \in DOMAIN coll |->
     IF coll[i].filePath \in docsToRemove
     THEN [coll[i] EXCEPT !.unStageFlag = TRUE] ELSE coll[i]]

\* the documents that carry unStageFlag, as <<target, stageTarget, filePath>>
Flagged(colls) ==
  UNION {{<<key[1], key[2], d.filePath>> : d \in {x \in Range(colls[key]) : x.unStageFlag}} :
           key \in DOMAIN colls}

\* no stager is running; its collections are empty
StagerOff ==
  /\ stagingFile = <<>>
  /\ sets = <<>>
  /\ spc = "off"
  /\ setIdx = 1
  /\ tierIdx = 1
  /\ targetField = ""
  /\ collSel = <<>>
  /\ collsStage = [key \in StageKeys |-> <<>>]
  /\ collsXRDNew = [t \in Range(ListOfTargets) |-> <<>>]
  /\ passNo = 0
  /\ setLog = <<>>
  /\ markLog = {}
  /\ diffOut = <<>>
  /\ flaggedLog = <<>>
  /\ runEnds = <<>>

\* -------------------------------------------------------------- crawlerXRD
NodeName == "n1"

XrdListOfTargets == <<"picoDst", "picoDstJet", "aschmah">>

\* the find of lines 95-99 without 'storage.details': the files of the target
\* on every node
RECURSIVE FilesOnAnyNode(_, _)
FilesOnAnyNode(coll, target) ==
  IF coll = <<>> THEN <<>>
  ELSE (IF Head(coll).target = target /\ Head(coll).storage.location = "XRD"
        THEN <<Head(coll).filePath>> ELSE <<>>)
       \o FilesOnAnyNode(Tail(coll), target)

\* lines 95-99: the filePath of every document of the collection that the
\* filter {target, storage.location: 'XRD', storage.details: nodeName} selects
RECURSIVE FilesOnNode(_, _)
FilesOnNode(coll, target) ==
  IF coll = <<>> THEN <<>>
  ELSE (IF /\ Head(coll).target = target
           /\ Head(coll).storage.location = "XRD"
           /\ Head(coll).storage.details = NodeName
        THEN <<Head(coll).filePath>> ELSE <<>>)
       \o FilesOnNode(Tail(coll), target)

\* the document without line 139: no issue is written for a broken link
FileDocNoIssue(file, target) ==
  [fileFullPath |-> <<"export", file.filePath>>, filePath |-> file.filePath,
   storage |-> [location |-> "XRD", detail |-> NodeName, disk |-> ""],
   target |-> target, fileSize |-> -1]

\* lines 127-133, 139, 143-144: the document of a walked file
FileDoc(file, target) ==
  IF file.linkOk
  THEN [fileFullPath |-> <<"export", file.filePath>>, filePath |-> file.filePath,
        storage |-> [location |-> "XRD", detail |-> NodeName, disk |-> file.disk],
        target |-> target, fileSize |-> file.fileSize]
  ELSE [fileFullPath |-> <<"export", file.filePath>>, filePath |-> file.filePath,
        storage |-> [location |-> "XRD", detail |-> NodeName, disk |-> ""],
        target |-> target, fileSize |-> -1, issue |-> "brokenLink"]

\* stands in for MatchBelieved below: the matched path stays in the list
KeepBelieved(list, filePath) == list

\* line 149: listOfFilesOnNode.remove(doc['filePath'])
MatchBelieved(list, filePath) == RemoveFirst(list, filePath)

\* lines 108, 161: insert_many of a list of path strings; the driver takes
\* mappings only and raises TypeError before it writes anything
InsertManyPaths(coll, paths) == [coll |-> coll, raised |-> TRUE]

\* line 157: insert_many of documents without _id; the store gives each its own
InsertManyDocs(coll, docs) == [coll |-> coll \o docs, raised |-> FALSE]

XRDOff ==
  /\ xrdTarget = ""
  /\ workDirExists = FALSE
  /\ collsXRD = <<>>
  /\ collsNew = <<>>
  /\ collsMiss = <<>>
  /\ walk = <<>>
  /\ xpc = "off"
  /\ walkPos = 1
  /\ listOfFilesOnNode = <<>>
  /\ listOfNewFiles = <<>>
  /\ believed = <<>>
  /\ queuedNew = <<>>
  /\ queuedMiss = <<>>

\* --------------------------------------- the starDetails of _makePicoDstDoc
\* Strings that are taken apart or converted are sequences of characters.
\* The tokens of the model are made of letters, digits, '.' and '_'.
DigitVal ==
  ("0" :> 0) @@ ("1" :> 1) @@ ("2" :> 2) @@ ("3" :> 3) @@ ("4" :> 4) @@
  ("5" :> 5) @@ ("6" :> 6) @@ ("7" :> 7) @@ ("8" :> 8) @@ ("9" :> 9)

DigitChar == [n \in 0..9 |-> CHOOSE c \in DOMAIN DigitVal : DigitVal[c] = n]

\* the value of a run of decimal digits
RECURSIVE DecValue(_)
DecValue(token) ==
  IF token = <<>> THEN 0
  ELSE DecValue(SubSeq(token, 1, Len(token) - 1)) * 10 + DigitVal[token[Len(token)]]

\* '{}'.format(n) of a non-negative int
RECURSIVE IntToChars(_)
IntToChars(n) ==
  IF n < 10 THEN <<DigitChar[n]>> ELSE Append(IntToChars(n \div 10), DigitChar[n % 10])

IsDigits(token) == token # <<>> /\ \A i \in DOMAIN token : token[i] \in DOMAIN DigitVal

\* line 98: [k.split('%') if '%' in k else [k, 's'] for k in pathKeys]
TypedPathKeys(pathKeys) ==
  [i \in DOMAIN pathKeys |->
     IF Len(pathKeys[i]) > 1 THEN pathKeys[i] ELSE <<pathKeys[i][1], "s">>]

\* every segment kept as the string it is
CoerceStr(type, token) == [raised |-> "", value |-> [t |-> "str", v |-> token]]

\* line 257: self._typeMap[keys[1]](value), with the _typeMap of line 99;
\* int() and float() of a token that is no number raise ValueError, a type
\* code that is no key of _typeMap raises KeyError
Coerce(type, token) ==
  IF type = "s" THEN [raised |-> "", value |-> [t |-> "str", v |-> token]]
  ELSE IF type = "d"
  THEN (IF IsDigits(token)
        THEN [raised |-> "", value |-> [t |-> "int", v |-> DecValue(token)]]
        ELSE [raised |-> "ValueError", value |-> <<>>])
  ELSE IF type = "f"
  THEN (IF IsDigits(token)
        THEN [raised |-> "", value |-> [t |-> "float", v |-> DecValue(token)]]
        ELSE [raised |-> "ValueError", value |-> <<>>])
  ELSE [raised |-> "KeyError", value |-> <<>>]

Min(a, b) == IF a < b THEN a ELSE b

\* lines 257-258: dict of (keys[0], coerced value) over zip(typedPathKeys,
\* tokens); zip ends with the shorter of the two, a later pair with the same
\* key replaces an earlier one, the first coercion that fails raises
ZipDetails(typedPathKeys, tokens) ==
  LET n == Min(Len(typedPathKeys), Len(tokens))
      c(i) == Coerce(typedPathKeys[i][2], tokens[i])
      bad == {i \in 1..n : c(i).raised # ""}
      names == {typedPathKeys[i][1] : i \in 1..n}
      last(name) == CHOOSE i \in 1..n :
                      /\ typedPathKeys[i][1] = name
                      /\ \A j \in 1..n : typedPathKeys[j][1] = name => j <= i
  IN IF bad # {}
     THEN [raised |-> c(CHOOSE i \in bad : \A j \in bad : i <= j).raised, details |-> <<>>]
     ELSE [raised |-> "", details |-> [name \in names |-> c(last(name)).value]]

\* '{}'.format(value) as it stands in the pattern of line 261
FormatValue(value) ==
  IF value.t = "int" THEN IntToChars(value.v)
  ELSE IF value.t = "float" THEN IntToChars(value.v) \o <<".", "0">>
  ELSE value.v

\* the pattern matches the text at index at; '.' in the pattern is any character
MatchAt(text, at, pattern) ==
  /\ at + Len(pattern) - 1 <= Len(text)
  /\ \A k \in DOMAIN pattern : pattern[k] = "." \/ text[at + k - 1] = pattern[k]

FileSuffix == <<".", "p", "i", "c", "o", "D", "s", "t", ".", "r", "o", "o", "t">>

\* line 90
LengthFileSuffix == Len(FileSuffix)

\* lines 261-272: re.split('(st_.*)_<runnumber>', fileName) has three parts,
\* the first one empty, when the name begins with st_ and _<runnumber>
\* comes later; .* takes all up to the last such place
StreamDetails(details, fileName) ==
  LET rn == IF "runnumber" \in DOMAIN details THEN FormatValue(details["runnumber"]) ELSE <<>>
      pattern == <<"_">> \o rn
      occ == {q \in 4..Len(fileName) : MatchAt(fileName, q, pattern)}
      q == CHOOSE x \in occ : \A y \in occ : y <= x
      rest == SubSeq(fileName, q + Len(pattern), Len(fileName))
      strippedSuffix == SubSeq(rest, 2, Len(rest) - LengthFileSuffix)
      bars == {i \in DOMAIN strippedSuffix : strippedSuffix[i] = "_"}
      picoType == IF Cardinality(bars) = 1
                  THEN SubSeq(strippedSuffix, 1, (CHOOSE i \in bars : TRUE) - 1)
                  ELSE strippedSuffix
  IN IF MatchAt(fileName, 1, <<"s", "t", "_">>) /\ occ # {}
     THEN [k \in DOMAIN details \cup {"stream", "picoType"} |->
             IF k = "picoType" THEN [t |-> "str", v |-> picoType]
             ELSE IF k = "stream" THEN [t |-> "str", v |-> SubSeq(fileName, 1, q - 1)]
             ELSE details[k]]
     ELSE details

\* lines 253-275: doc['starDetails'], or the exception that ends the call
StarDetails(typedPathKeys, tokens) ==
  LET z == ZipDetails(typedPathKeys, tokens)
  IN IF z.raised # "" THEN z
     ELSE [raised |-> "", details |-> StreamDetails(z.details, tokens[Len(tokens)])]

ResolverOff ==
  /\ pathKeysSchema = <<>>
  /\ cleanPathTokenized = <<>>
  /\ rpc = "off"
  /\ docStarDetails = <<>>

\* the processes that main is started as
Stagers == {"s1", "s2"}

\* the stager object of a process that has not started
ParIdle == [pc |-> "idle", sets |-> <<>>, setIdx |-> 1, tierIdx |-> 1,
            targetField |-> "", coll |-> <<>>]

ParOff == runs = [p \in Stagers |-> ParIdle]

\* the staging file has not been edited
OrderOff == marksLeft = <<>>

\* ------------------------------------------------------- crawler actions
\* no crawler is running
CrawlersIdle ==
  /\ clock = 1
  /\ collHpssFiles = <<>>
  /\ collHpssDuplicates = <<>>
  /\ pc = [c \in Crawlers |-> "idle"]
  /\ today = [c \in Crawlers |-> 1]
  /\ folder = [c \in Crawlers |-> "picodsts"]
  /\ pos = [c \in Crawlers |-> 1]
  /\ listPicoDsts = [c \in Crawlers |-> <<>>]
  /\ nCrawls = 0
  /\ insertedBy = [p \in {} |-> <<>>]
  /\ lastUpsert = [doc |-> None, ret |-> None, day |-> 0]
  /\ ingestLog = <<>>
  /\ lastInsert = [batch |-> <<>>, picoDstsBefore |-> <<>>, nInserted |-> 0,
                   nDuplicated |-> 0, raised |-> FALSE]

\* the date moves on between runs
Tick ==
  /\ clock < MaxDay
  /\ clock' = clock + 1
  /\ UNCHANGED <<collHpssFiles, collHpssPicoDsts, collHpssDuplicates, pc, today, folder,
                 pos, listPicoDsts, nCrawls, insertedBy, lastUpsert, ingestLog, lastInsert>>
  /\ UNCHANGED <<varsStager, varsXRD, varsResolver, varsPar, varsOrder>>

\* a crawler process starts _parseSubFolder(subFolder); a crawler that has
\* crashed is started again as a new process
StartCrawl(c) ==
  /\ pc[c] \in {"idle", "crashed"}
  /\ nCrawls < MaxCrawls
  /\ \E sf \in SubFolders : folder' = [folder EXCEPT ![c] = sf]
  /\ pc' = [pc EXCEPT ![c] = "scan"]
  /\ today' = [today EXCEPT ![c] = clock]
  /\ pos' = [pos EXCEPT ![c] = 1]
  /\ listPicoDsts' = [listPicoDsts EXCEPT ![c] = <<>>]
  /\ nCrawls' = nCrawls + 1
  /\ UNCHANGED <<clock, collHpssFiles, collHpssPicoDsts, collHpssDuplicates,
                 insertedBy, lastUpsert, ingestLog, lastInsert>>
  /\ UNCHANGED <<varsStager, varsXRD, varsResolver, varsPar, varsOrder>>

CurrentLine(c) == Listing(folder[c])[pos[c]]

\* the candidates one new HPSS_Files document adds to listPicoDsts
Candidates(doc) ==
  IF doc.fileType = "picoDst"
  THEN <<MakePicoDstDoc(doc.fileFullPath, doc.fileSize, None, FALSE)>>
  ELSE IF doc.fileType = "tar" THEN ParseTarFile(doc)
  ELSE <<>>

\* one pass of the loop of _parseSubFolder over a line of the listing
ParseEntry(c) ==
  /\ pc[c] = "scan"
  /\ pos[c] <= Len(Listing(folder[c]))
  /\ pos' = [pos EXCEPT ![c] = @ + 1]
  /\ IF CurrentLine(c).kind = "d"
     THEN UNCHANGED <<collHpssFiles, listPicoDsts, insertedBy, lastUpsert>>
     ELSE \E size \in Sizes :
            LET doc == ParseLine(CurrentLine(c).block, CurrentLine(c).name, size)
                r == FindOneAndUpdate(collHpssFiles, doc, today[c])
            IN /\ collHpssFiles' = r.coll
               /\ lastUpsert' = [doc |-> <<doc>>, ret |-> r.ret, day |-> today[c]]
               /\ IF r.ret # None
                  THEN UNCHANGED <<listPicoDsts, insertedBy>>
                  ELSE /\ listPicoDsts' = [listPicoDsts EXCEPT ![c] = @ \o Candidates(doc)]
                       /\ insertedBy' =
                            [p \in DOMAIN insertedBy \cup {doc.fileFullPath} |->
                               IF p \in DOMAIN insertedBy
                               THEN (IF p = doc.fileFullPath
                                     THEN Append(insertedBy[p], c) ELSE insertedBy[p])
                               ELSE <<c>>]
  /\ UNCHANGED <<clock, collHpssPicoDsts, collHpssDuplicates, pc, today, folder,
                 nCrawls, ingestLog, lastInsert>>
  /\ UNCHANGED <<varsStager, varsXRD, varsResolver, varsPar, varsOrder>>

\* the end of _parseSubFolder: self._insertPicoDsts(listPicoDsts)
InsertPicoDsts(c) ==
  /\ pc[c] = "scan"
  /\ pos[c] > Len(Listing(folder[c]))
  /\ LET r == InsertPicoDstsResult(collHpssPicoDsts, collHpssDuplicates, listPicoDsts[c])
     IN /\ collHpssPicoDsts' = r.picoDsts
        /\ collHpssDuplicates' = r.duplicates
        /\ pc' = [pc EXCEPT ![c] = IF r.raised THEN "crashed" ELSE "idle"]
        /\ lastInsert' = [batch |-> listPicoDsts[c],
                          picoDstsBefore |-> collHpssPicoDsts,
                          nInserted |-> Len(r.picoDsts) - Len(collHpssPicoDsts),
                          nDuplicated |-> Len(r.duplicates) - Len(collHpssDuplicates),
                          raised |-> r.raised]
  /\ ingestLog' = ingestLog \o listPicoDsts[c]
  /\ UNCHANGED <<clock, collHpssFiles, today, folder, pos, listPicoDsts, nCrawls,
                 insertedBy, lastUpsert>>
  /\ UNCHANGED <<varsStager, varsXRD, varsResolver, varsPar, varsOrder>>

\* the crawlers start on an empty store
InitHPSS ==
  /\ CrawlersIdle
  /\ collHpssPicoDsts = <<>>
  /\ StagerOff
  /\ XRDOff
  /\ ResolverOff
  /\ ParOff
  /\ OrderOff

NextHPSS ==
  \/ Tick
  \/ \E c \in Crawlers : StartCrawl(c)
  \/ \E c \in Crawlers : ParseEntry(c)
  \/ \E c \in Crawlers : InsertPicoDsts(c)

SpecHPSS == InitHPSS /\ [][NextHPSS]_vars

\* one crawler process whose crawls may be stopped from outside at any line
CrashCrawlers == {"c1"}

\* the process is killed inside _parseSubFolder, between two lines of the
\* listing or before line 172: listPicoDsts, a local list, is gone with it;
\* what the upserts of line 157 wrote to HPSS_Files stays
InterruptCrawl(c) ==
  /\ pc[c] = "scan"
  /\ pc' = [pc EXCEPT ![c] = "crashed"]
  /\ UNCHANGED <<clock, collHpssFiles, collHpssPicoDsts, collHpssDuplicates, today, folder,
                 pos, listPicoDsts, nCrawls, insertedBy, lastUpsert, ingestLog, lastInsert>>
  /\ UNCHANGED <<varsStager, varsXRD, varsResolver, varsPar, varsOrder>>

NextHPSSCrash ==
  \/ Tick
  \/ \E c \in CrashCrawlers : StartCrawl(c)
  \/ \E c \in CrashCrawlers : ParseEntry(c)
  \/ \E c \in CrashCrawlers : InsertPicoDsts(c)
  \/ \E c \in CrashCrawlers : InterruptCrawl(c)

SpecHPSSCrash == InitHPSS /\ [][NextHPSSCrash]_vars

\* ------------------------------------------------- claims on the crawler
DocsWithPath(coll, filePath) == {i \in DOMAIN coll : coll[i].filePath = filePath}

\* the documents handed to _insertPicoDsts for one canonical path, in order
Handed(filePath) ==
  LET Test(d) == d.filePath = filePath IN SelectSeq(ingestLog, Test)

\* C1: a canonical path ingested once and then a second time, from another
\* archive file and with another size, has exactly one document in
\* HPSS_PicoDsts, with the first size, and exactly one document in
\* HPSS_Duplicates, with the second size.
C1_OneCanonicalOneDuplicate ==
  \A P \in {d.filePath : d \in Range(ingestLog)} :
    LET h == Handed(P)
    IN (Len(h) = 2 /\ h[1].fileSize # h[2].fileSize /\ h[1].fileFullPath # h[2].fileFullPath)
       => /\ Cardinality(DocsWithPath(collHpssPicoDsts, P)) = 1
          /\ \A i \in DocsWithPath(collHpssPicoDsts, P) :
                collHpssPicoDsts[i].fileSize = h[1].fileSize
          /\ Cardinality(DocsWithPath(collHpssDuplicates, P)) = 1
          /\ \A i \in DocsWithPath(collHpssDuplicates, P) :
                collHpssDuplicates[i].fileSize = h[2].fileSize

\* C5: a find_one_and_update of a full path that HPSS_Files already holds
\* leaves every document as it was, but for the lastSeen of the document of
\* that path, which becomes the date of the run; no document is added.
C5_ReobservedPath(c) ==
  /\ pc[c] = "scan"
  /\ pos[c] <= Len(Listing(folder[c]))
  /\ CurrentLine(c).kind # "d"
  /\ Matches(collHpssFiles, Append(CurrentLine(c).block, CurrentLine(c).name)) # {}

C5_UpsertRefreshesOnlyLastSeen ==
  [][\A c \in Crawlers :
       (ParseEntry(c) /\ C5_ReobservedPath(c))
       => /\ Len(collHpssFiles') = Len(collHpssFiles)
          /\ \A i \in DOMAIN collHpssFiles :
                collHpssFiles'[i] =
                  IF collHpssFiles[i].fileFullPath =
                       Append(CurrentLine(c).block, CurrentLine(c).name)
                  THEN [collHpssFiles[i] EXCEPT !.lastSeen = today[c]]
                  ELSE collHpssFiles[i]]_vars

\* a known path was seen again on a later day with another size than stored
C5_Witness ==
  /\ lastUpsert.ret # None
  /\ lastUpsert.doc[1].fileSize # lastUpsert.ret[1].fileSize
  /\ lastUpsert.day # lastUpsert.ret[1].lastSeen
  /\ \E i \in DOMAIN collHpssFiles :
        /\ collHpssFiles[i].fileFullPath = lastUpsert.doc[1].fileFullPath
        /\ collHpssFiles[i].lastSeen = lastUpsert.day

\* C9: whatever the interleaving of the crawlers, HPSS_Files never holds a
\* full path twice, and for every full path it holds exactly one
\* find_one_and_update call returned None (inserted), so the candidates of
\* one archive file come from one crawler only.
C9_OneInsertPerPath ==
  /\ \A i, j \in DOMAIN collHpssFiles :
        collHpssFiles[i].fileFullPath = collHpssFiles[j].fileFullPath => i = j
  /\ DOMAIN insertedBy = {collHpssFiles[i].fileFullPath : i \in DOMAIN collHpssFiles}
  /\ \A p \in DOMAIN insertedBy : Len(insertedBy[p]) = 1

\* both crawlers are inside the same listing, both past the line of the
\* tar file, which one of them inserted and the other found known
C9_Witness ==
  /\ \A c \in Crawlers : pc[c] = "scan" /\ folder[c] = "picodsts" /\ pos[c] = 3
  /\ <<"nersc", "picodsts", "Run10", "149.tar">> \in DOMAIN insertedBy

\* C10: for the last finished _insertPicoDsts call, inserted plus duplicated
\* is the size of the batch; a document whose _id was new to HPSS_PicoDsts
\* and first in the batch is in HPSS_PicoDsts, and every other document is
\* in HPSS_Duplicates without its _id.
C10_BatchLosesNothing ==
  LET b == lastInsert.batch
      before == {lastInsert.picoDstsBefore[i].id : i \in DOMAIN lastInsert.picoDstsBefore}
  IN /\ lastInsert.nInserted + lastInsert.nDuplicated = Len(b)
     /\ \A i \in DOMAIN b :
          IF b[i].id \notin before /\ \A j \in 1..(i - 1) : b[j].id # b[i].id
          THEN b[i] \in Range(collHpssPicoDsts)
          ELSE [b[i] EXCEPT !.id = Absent] \in Range(collHpssDuplicates)

\* the canonical relative path of an archive file (lines 244-245)
CanonicalPath(fileFullPath) ==
  SubSeq(fileFullPath, IdxBasePath(fileFullPath), Len(fileFullPath))

\* the last crawl of c has run to its end: _insertPicoDsts returned
CrawlCompleted(c) ==
  /\ pc[c] = "idle"
  /\ nCrawls >= 1
  /\ pos[c] > Len(Listing(folder[c]))

\* C23: after crawls of one subfolder of which any may be stopped at any
\* point and a later one runs to its end, every HPSS_Files document of type
\* picoDst of that subfolder has a document in HPSS_PicoDsts or in
\* HPSS_Duplicates with its canonical relative path.
C23_InterruptedCrawlRecovered ==
  \A c \in CrashCrawlers :
    CrawlCompleted(c) =>
      \A f \in Range(collHpssFiles) :
        (f.fileType = "picoDst" /\ f.fileFullPath[2] = folder[c])
        => \E d \in Range(collHpssPicoDsts) \cup Range(collHpssDuplicates) :
             d.filePath = CanonicalPath(f.fileFullPath)

\* the full paths of the files a listing names
ListedPaths(subFolder) ==
  {Append(Listing(subFolder)[i].block, Listing(subFolder)[i].name) :
     i \in {j \in DOMAIN Listing(subFolder) : Listing(subFolder)[j].kind # "d"}}

\* c crawls a subFolder again: every file of the listing is in HPSS_Files,
\* as a crawl that went through the whole listing leaves it, and c has
\* found none of them new
ReCrawl(c) ==
  /\ pc[c] = "scan"
  /\ ListedPaths(folder[c]) \subseteq {f.fileFullPath : f \in Range(collHpssFiles)}
  /\ listPicoDsts[c] = <<>>

\* C24: a crawl of a listing whose files a complete crawl has recorded
\* inserts nothing into HPSS_PicoDsts and nothing into HPSS_Duplicates; every
\* step of it leaves the store as it is but for lastSeen of HPSS_Files
\* documents, set to the day of the crawl, and hands no file to the batch.
C24_ReCrawlInsertsNothing ==
  [][\A c \in Crawlers :
       (ReCrawl(c) /\ (ParseEntry(c) \/ InsertPicoDsts(c)))
       => /\ collHpssPicoDsts' = collHpssPicoDsts
          /\ collHpssDuplicates' = collHpssDuplicates
          /\ listPicoDsts'[c] = <<>>
          /\ ingestLog' = ingestLog
          /\ Len(collHpssFiles') = Len(collHpssFiles)
          /\ \A i \in DOMAIN collHpssFiles :
                \/ collHpssFiles'[i] = collHpssFiles[i]
                \/ collHpssFiles'[i] = [collHpssFiles[i] EXCEPT !.lastSeen = today[c]]]_vars

\* a crawl of picoDST ran to its end and handed its file to the batch; on a
\* later day another crawl of picoDST ran to its end, found the file known
\* and refreshed its lastSeen
C24_Witness ==
  /\ \A c \in Crawlers :
        pc[c] = "idle" /\ folder[c] = "picoDST" /\ pos[c] > Len(Listing("picoDST"))
  /\ nCrawls = 2
  /\ Len(ingestLog) = 1
  /\ lastInsert.batch = <<>>
  /\ lastUpsert.ret # None
  /\ lastUpsert.day > lastUpsert.ret[1].lastSeen
  /\ Len(collHpssPicoDsts) = 1 /\ collHpssDuplicates = <<>>

\* ---------------------------------------------------------- stager actions
\* runs of the stager (each a process of its own, reading the staging file)
MaxPasses == 2
\* request sets in the staging file
MaxSets == 2

\* dictionaries of the staging file
Dict3(k1, v1, k2, v2, k3, v3) == (k1 :> v1) @@ (k2 :> v2) @@ (k3 :> v3)

SetPool ==
  { Dict3("stageTarget", "XRD", "target", "picoDst", "runyear", "Run10"),
    Dict3("stageTarget", "XRD", "target", "picoDst", "starDetails.runyear", "Run11"),
    Dict3("stageTarget", "Tape", "target", "picoDst", "starDetails.runyear", "Run10"),
    ("stageTarget" :> "Disk") @@ ("target" :> "picoDst"),
    Dict3("stageTarget", "XRD", "target", "nope", "starDetails.runyear", "Run10"),
    Dict3("stageTarget", "XRD", "target", "picoDst", "foo", "Run10"),
    Dict3("stageTarget", "XRD", "target", "picoDst", "runyear", "Run10") @@ ("foo" :> "bar") }

StagingFiles == UNION {[1..n -> SetPool] : n \in 1..MaxSets}

\* the data files of the stager's catalogs
FileA == <<"Run10", "149", "a.picoDst.root">>
FileC == <<"Run11", "150", "c.picoDst.root">>

\* FileA is an entry of the tar file 149.tar, FileC a file of its own
TarOf(filePath) ==
  IF filePath = FileA
  THEN <<[fileFullPath |-> <<"nersc", "picodsts", "Run10", "149.tar">>]>>
  ELSE None

\* a document of HPSS_PicoDsts as the crawler makes it, with its XRD mark
HpssDoc(filePath, marked) ==
  [(IF TarOf(filePath) # None
    THEN MakePicoDstDoc(<<"project", "picodsts">> \o filePath, 3, TarOf(filePath)[1], TRUE)
    ELSE MakePicoDstDoc(<<"nersc", "picodsts">> \o filePath, 1, None, FALSE))
     EXCEPT !.stageMarkerXRD = marked]

\* a document of a staging collection <stageTarget>_PicoDsts
StageDoc(filePath, stageTarget, mark) ==
  [filePath |-> filePath, runyear |-> filePath[1],
   staging |-> (StageMarkerField(stageTarget) :> mark), unStageFlag |-> FALSE]

\* a document of the collection read at line 215
ReplicaDoc(filePath, stageTarget) ==
  [filePath |-> filePath, location |-> stageTarget, dataClass |-> "picoDst"]

BoolStr(b) == IF b THEN "True" ELSE "False"

\* The catalogs are what the stager finds: HPSS_PicoDsts holds both files,
\* the staging collections hold them with the marks an earlier run left, and
\* any of them may be resident.
InitStager ==
  /\ CrawlersIdle
  /\ \E hm \in SUBSET {FileA, FileC} :
       collHpssPicoDsts = <<HpssDoc(FileA, FileA \in hm), HpssDoc(FileC, FileC \in hm)>>
  /\ stagingFile \in StagingFiles
  /\ sets = <<>>
  /\ spc = "off"
  /\ setIdx = 1
  /\ tierIdx = 1
  /\ targetField = ""
  /\ collSel = <<>>
  /\ \E sm \in SUBSET {FileA, FileC} :
       collsStage = [key \in StageKeys |->
                       IF key = <<"picoDst", "XRD">>
                       THEN <<StageDoc(FileA, "XRD", BoolStr(FileA \in sm)),
                              StageDoc(FileC, "XRD", BoolStr(FileC \in sm))>>
                       ELSE IF key = <<"picoDst", "Disk">>
                       THEN <<StageDoc(FileA, "Disk", "False")>>
                       ELSE <<>>]
  /\ \E res \in SUBSET {FileA, FileC} :
       collsXRDNew = [t \in Range(ListOfTargets) |->
                        IF t = "picoDst"
                        THEN (IF FileA \in res THEN <<ReplicaDoc(FileA, "XRD")>> ELSE <<>>)
                             \o (IF FileC \in res THEN <<ReplicaDoc(FileC, "XRD")>> ELSE <<>>)
                        ELSE <<>>]
  /\ passNo = 0
  /\ setLog = <<>>
  /\ markLog = {}
  /\ diffOut = <<>>
  /\ flaggedLog = <<>>
  /\ runEnds = <<>>
  /\ XRDOff
  /\ ResolverOff
  /\ ParOff
  /\ OrderOff

\* main, __init__: a run of the stager starts and reads the staging file
StartStager ==
  /\ spc \in {"off", "done", "crashed", "cancelled"}
  /\ passNo < MaxPasses
  /\ passNo' = passNo + 1
  /\ sets' = stagingFile
  /\ spc' = "reset"
  /\ setIdx' = 1
  /\ tierIdx' = 1
  /\ targetField' = ""
  /\ collSel' = <<>>
  /\ setLog' = <<>>
  /\ markLog' = {}
  /\ diffOut' = Append(diffOut, [key \in {} |-> {}])
  /\ flaggedLog' = Append(flaggedLog, {})
  /\ runEnds' = Append(runEnds, "running")
  /\ UNCHANGED <<stagingFile, collsStage, collsXRDNew>>
  /\ UNCHANGED <<varsHPSS, varsXRD, varsResolver, varsPar, varsOrder>>

\* markFilesToBeStaged, line 121: self._resetAllStagingMarks()
ResetMarks ==
  /\ spc = "reset"
  /\ collsStage' = ResetAllStagingMarks(collsStage)
  /\ spc' = "mark"
  /\ UNCHANGED <<stagingFile, sets, setIdx, tierIdx, targetField, collSel, collsXRDNew,
                 passNo, setLog, markLog, diffOut, flaggedLog, runEnds>>
  /\ UNCHANGED <<varsHPSS, varsXRD, varsResolver, varsPar, varsOrder>>

\* markFilesToBeStaged, lines 123-126: one stageSet of the loop
MarkSet ==
  /\ spc = "mark"
  /\ setIdx <= Len(sets)
  /\ \E o \in PrepareSet(sets[setIdx], targetField, collSel) :
       /\ sets' = [sets EXCEPT ![setIdx] = o.stageSet]
       /\ targetField' = o.targetField
       /\ collSel' = o.coll
       /\ setLog' = Append(setLog, o.ret)
       /\ spc' = IF o.ret = "RuntimeError" THEN "crashed" ELSE "mark"
       /\ runEnds' = IF o.ret = "RuntimeError"
                     THEN [runEnds EXCEPT ![passNo] = "RuntimeError"] ELSE runEnds
       /\ IF o.ret = "True"
          THEN /\ collsStage' = [collsStage EXCEPT
                                   ![o.coll] = UpdateManyMark(@, o.stageSet, o.targetField)]
               /\ markLog' = markLog \cup
                    {<<o.coll[1], o.coll[2], d.filePath>> :
                       d \in {x \in Range(collsStage[o.coll]) : DocMatches(x, o.stageSet)}}
          ELSE UNCHANGED <<collsStage, markLog>>
  /\ setIdx' = setIdx + 1
  /\ UNCHANGED <<stagingFile, tierIdx, collsXRDNew, passNo, diffOut, flaggedLog>>
  /\ UNCHANGED <<varsHPSS, varsXRD, varsResolver, varsPar, varsOrder>>

\* main, line 276: listOfFilesToBeStaged() counts and prints, and writes nothing
ListOfFilesToBeStaged ==
  /\ spc = "mark"
  /\ setIdx > Len(sets)
  /\ spc' = "diff"
  /\ UNCHANGED <<stagingFile, sets, setIdx, tierIdx, targetField, collSel, collsStage,
                 collsXRDNew, passNo, setLog, markLog, diffOut, flaggedLog, runEnds>>
  /\ UNCHANGED <<varsHPSS, varsXRD, varsResolver, varsPar, varsOrder>>

\* line 234: listToStageFromHPSS = [], handed to _stageHPSSFiles at line 251
\* as it is; lines 236-248 are comments
ListToStageFromHPSS == <<>>

\* what the loop over the targets of prepareListOfFilesToBeStaged computes
DiffOf(target, stageTarget) ==
  LET docsSetHPSS == DocsSetHPSS(collHpssPicoDsts, target, StageMarkerField(stageTarget))
      docsSetStaged == DocsSetStaged(collsXRDNew, target, stageTarget)
  IN [docsToStage |-> DocsToStage(docsSetHPSS, docsSetStaged),
      docsToRemove |-> DocsToRemove(docsSetHPSS, docsSetStaged),
      listToStageFromHPSS |-> ListToStageFromHPSS]

\* the loop of lines 207-251 after the first n targets, for one stageTarget
TargetsLoop(n, stageTarget) ==
  LET done == {ListOfTargets[i] : i \in 1..n}
  IN /\ collsStage' =
          [key \in DOMAIN collsStage |->
             IF key[2] = stageTarget /\ key[1] \in done
             THEN FlagUnstage(collsStage[key], DiffOf(key[1], stageTarget).docsToRemove)
             ELSE collsStage[key]]
     /\ diffOut' =
          [diffOut EXCEPT ![passNo] =
             [key \in DOMAIN @ \cup {<<t, stageTarget>> : t \in done} |->
                IF key[2] = stageTarget THEN DiffOf(key[1], stageTarget) ELSE @[key]]]
     /\ flaggedLog' =
          [flaggedLog EXCEPT ![passNo] = @ \cup
             UNION {{<<t, stageTarget, d.filePath>> :
                       d \in {x \in Range(collsStage[<<t, stageTarget>>]) :
                                x.filePath \in DiffOf(t, stageTarget).docsToRemove}} :
                      t \in done}]

\* prepareListOfFilesToBeStaged(stageTarget): the diff and the unstage flags
\* of every target
PrepareListOfFilesToBeStaged ==
  /\ spc = "diff"
  /\ tierIdx <= Len(ListOfStageTargets)
  /\ TargetsLoop(Len(ListOfTargets), ListOfStageTargets[tierIdx])
  /\ tierIdx' = tierIdx + 1
  /\ UNCHANGED <<stagingFile, sets, spc, setIdx, targetField, collSel, collsXRDNew,
                 passNo, setLog, markLog, runEnds>>
  /\ UNCHANGED <<varsHPSS, varsXRD, varsResolver, varsPar, varsOrder>>

\* prepareListOfFilesToBeStaged(stageTarget) when a find of lines 211-217
\* raises (the store cannot be reached) for target number k: nothing catches
\* it between line 207 and main, the loop and the run end there
DiffRaises ==
  /\ spc = "diff"
  /\ tierIdx <= Len(ListOfStageTargets)
  /\ \E k \in DOMAIN ListOfTargets :
       TargetsLoop(k - 1, ListOfStageTargets[tierIdx])
  /\ spc' = "crashed"
  /\ runEnds' = [runEnds EXCEPT ![passNo] = "PyMongoError"]
  /\ UNCHANGED <<stagingFile, sets, setIdx, tierIdx, targetField, collSel, collsXRDNew,
                 passNo, setLog, markLog>>
  /\ UNCHANGED <<varsHPSS, varsXRD, varsResolver, varsPar, varsOrder>>

\* the process is stopped from outside; in _resetAllStagingMarks it may have
\* reset any of the collections by then
CancelRun ==
  /\ spc \in {"reset", "mark", "diff"}
  /\ IF spc = "reset"
     THEN \E K \in SUBSET {key \in StageKeys : collsStage[key] # <<>>} :
            collsStage' = [key \in StageKeys |->
                             IF key \in K THEN ResetAllStagingMarks(collsStage)[key]
                             ELSE collsStage[key]]
     ELSE UNCHANGED collsStage
  /\ spc' = "cancelled"
  /\ runEnds' = [runEnds EXCEPT ![passNo] = "cancelled"]
  /\ UNCHANGED <<stagingFile, sets, setIdx, tierIdx, targetField, collSel, collsXRDNew,
                 passNo, setLog, markLog, diffOut, flaggedLog>>
  /\ UNCHANGED <<varsHPSS, varsXRD, varsResolver, varsPar, varsOrder>>

\* main, lines 282-284: stage() does nothing; the run ends
EndStager ==
  /\ spc = "diff"
  /\ tierIdx > Len(ListOfStageTargets)
  /\ spc' = "done"
  /\ runEnds' = [runEnds EXCEPT ![passNo] = "done"]
  /\ UNCHANGED <<stagingFile, sets, setIdx, tierIdx, targetField, collSel, collsStage,
                 collsXRDNew, passNo, setLog, markLog, diffOut, flaggedLog>>
  /\ UNCHANGED <<varsHPSS, varsXRD, varsResolver, varsPar, varsOrder>>

NextStager ==
  \/ StartStager
  \/ ResetMarks
  \/ MarkSet
  \/ ListOfFilesToBeStaged
  \/ PrepareListOfFilesToBeStaged
  \/ EndStager

SpecStager == InitStager /\ [][NextStager]_vars

\* the stager with the runs that are ended from outside: a find that raises,
\* a process that is stopped
FaultFiles ==
  { <<Dict3("stageTarget", "XRD", "target", "picoDst", "starDetails.runyear", "Run11")>>,
    <<("stageTarget" :> "Disk") @@ ("target" :> "picoDst"),
      Dict3("stageTarget", "XRD", "target", "picoDst", "runyear", "Run10")>> }

InitStagerFaults == InitStager /\ stagingFile \in FaultFiles

NextStagerFaults ==
  \/ StartStager
  \/ ResetMarks
  \/ MarkSet
  \/ ListOfFilesToBeStaged
  \/ PrepareListOfFilesToBeStaged
  \/ DiffRaises
  \/ CancelRun
  \/ EndStager

SpecStagerFaults == InitStagerFaults /\ [][NextStagerFaults]_vars

\* the stager with a staging file whose sets are put in another order between
\* two runs.  The file has MaxSets sets: one with a bare recognized key, one
\* with a namespaced key, one that selects every record of its collection
\* (it overlaps the other two), and one on an unknown tier.
OrderPool ==
  { Dict3("stageTarget", "XRD", "target", "picoDst", "runyear", "Run10"),
    Dict3("stageTarget", "XRD", "target", "picoDst", "starDetails.runyear", "Run11"),
    ("stageTarget" :> "XRD") @@ ("target" :> "picoDst"),
    Dict3("stageTarget", "Tape", "target", "picoDst", "starDetails.runyear", "Run10") }

OrderFiles == [1..MaxSets -> OrderPool]

\* the lists that hold the sets of a list in any order
SetOrders(list) ==
  {[i \in DOMAIN list |-> list[f[i]]] :
     f \in {g \in [DOMAIN list -> DOMAIN list] : \A i \in DOMAIN list : \E j \in DOMAIN list : g[j] = i}}

\* the staging sub-document of every record of the staging collections
StagingMarks(colls) ==
  [key \in DOMAIN colls |-> [i \in DOMAIN colls[key] |-> colls[key][i].staging]]

InitStagerOrder == InitStager /\ stagingFile \in OrderFiles

\* between two runs the sets of the staging file are put in another order;
\* the next __init__ reads them with json.load as the file has them
ReorderSets ==
  /\ spc \in {"done", "crashed"}
  /\ passNo < MaxPasses
  /\ stagingFile' \in SetOrders(stagingFile) \ {stagingFile}
  /\ marksLeft' = <<[passNo |-> passNo, marks |-> StagingMarks(collsStage)]>>
  /\ UNCHANGED <<sets, spc, setIdx, tierIdx, targetField, collSel, collsStage, collsXRDNew,
                 passNo, setLog, markLog, diffOut, flaggedLog, runEnds>>
  /\ UNCHANGED <<varsHPSS, varsXRD, varsResolver, varsPar>>

NextStagerOrder ==
  \/ StartStager
  \/ ResetMarks
  \/ MarkSet
  \/ ListOfFilesToBeStaged
  \/ PrepareListOfFilesToBeStaged
  \/ EndStager
  \/ ReorderSets

SpecStagerOrder == InitStagerOrder /\ [][NextStagerOrder]_vars

\* -------------------------------------------------- claims on the stager
\* a request set as the staging file's documentation reads it: tier and
\* target of the lists, every other key namespaced or a recognized bare name
ValidSet(s) ==
  /\ "stageTarget" \in DOMAIN s /\ s["stageTarget"] \in Range(ListOfStageTargets)
  /\ "target" \in DOMAIN s /\ s["target"] \in Range(ListOfTargets)
  /\ \A k \in DOMAIN s \ {"stageTarget", "target"} :
       ContainsStarDetails(k) \/ k \in ListOfQueryItems

\* its predicate: the other keys, every bare one namespaced
PredicateOf(s) ==
  LET q == Del(Del(s, "target"), "stageTarget")
  IN RewriteKeys(q, {k \in DOMAIN q : ~ContainsStarDetails(k)})

\* the starDetails of a document of HPSS_PicoDsts: runyear is the first
\* segment of its filePath
CanonicalMatches(r, filter) ==
  \A k \in DOMAIN filter :
    (IF k = "starDetails.runyear" THEN r.filePath[1] ELSE "<no such key>") = filter[k]

\* reset and mark of the current run have ended, uninterrupted
MarkStepDone == spc \in {"diff", "done"}

\* C2: the docsToStage and docsToRemove of one diff have no filePath in common.
C2_StageUnstageDisjoint ==
  \A p \in DOMAIN diffOut : \A key \in DOMAIN diffOut[p] :
    diffOut[p][key].docsToStage \cap diffOut[p][key].docsToRemove = {}

\* a diff that gave something to stage and something to unstage
C2_Witness ==
  \E p \in DOMAIN diffOut : \E key \in DOMAIN diffOut[p] :
    diffOut[p][key].docsToStage # {} /\ diffOut[p][key].docsToRemove # {}

\* C3: after reset and mark, a CanonicalRecord (a document of HPSS_PicoDsts)
\* has its staging mark of a tier true exactly when a valid request set of
\* the staging file with that tier and the record's target matches it.
C3_MarksReflectDirectives ==
  MarkStepDone =>
    \A i \in DOMAIN collHpssPicoDsts : \A st \in Range(ListOfStageTargets) :
      HpssStaging(collHpssPicoDsts[i], StageMarkerField(st))
      <=> \E j \in DOMAIN stagingFile :
            /\ ValidSet(stagingFile[j])
            /\ stagingFile[j]["stageTarget"] = st
            /\ stagingFile[j]["target"] = collHpssPicoDsts[i].dataClass
            /\ CanonicalMatches(collHpssPicoDsts[i], PredicateOf(stagingFile[j]))

\* C4: the diff of a (target, tier) gives docsToStage = M \ R and
\* docsToRemove = R \ M, M the filePaths the mark step of the same run
\* marked true for that target and tier, R the filePaths resident on the tier.
C4_DiffOfMarkedAndResident ==
  passNo >= 1 =>
    \A key \in DOMAIN diffOut[passNo] :
      LET M == {f \in {FileA, FileC} : <<key[1], key[2], f>> \in markLog}
          R == DocsSetStaged(collsXRDNew, key[1], key[2])
      IN /\ diffOut[passNo][key].docsToStage = M \ R
         /\ diffOut[passNo][key].docsToRemove = R \ M

\* C6: when the staging file holds a set with an unrecognized tier, that set
\* is rejected, and once the mark step is over (or the run has ended) every
\* document that a valid set of the file matches is marked true.
C6_SiblingSetsStillApply ==
  (/\ spc \in {"diff", "done", "crashed"}
   /\ \E i \in DOMAIN stagingFile :
        stagingFile[i]["stageTarget"] \notin Range(ListOfStageTargets))
  => /\ \A i \in DOMAIN setLog :
          stagingFile[i]["stageTarget"] \notin Range(ListOfStageTargets)
          => setLog[i] = "False"
     /\ \A j \in DOMAIN stagingFile :
          ValidSet(stagingFile[j]) =>
            LET key == <<stagingFile[j]["target"], stagingFile[j]["stageTarget"]>>
                field == StageMarkerField(stagingFile[j]["stageTarget"])
            IN \A d \in Range(collsStage[key]) :
                 DocMatches(d, PredicateOf(stagingFile[j]))
                 => field \in DOMAIN d.staging /\ d.staging[field] = "True"

\* C8: of two runs in a row that both ran to their end, the second gives the
\* docsToStage and docsToRemove of the first for every (target, tier), and
\* every document the first flagged with unStageFlag still carries it.
C8_SecondPassSame ==
  (passNo = 2 /\ spc = "done" /\ DOMAIN diffOut[1] = StageKeys)
  => /\ diffOut[2] = diffOut[1]
     /\ flaggedLog[1] \subseteq Flagged(collsStage)

\* two full runs, the first of which flagged a document and had one to stage
C8_Witness ==
  /\ passNo = 2 /\ spc = "done" /\ DOMAIN diffOut[1] = StageKeys
  /\ flaggedLog[1] # {}
  /\ \E key \in StageKeys : diffOut[1][key].docsToStage # {}

\* a step of the loop of markFilesToBeStaged (lines 123-126)
MarkSetStep == spc = "mark" /\ setIdx <= Len(sets) /\ setIdx' = setIdx + 1

\* C11: a request set that _prepareSet rejects, for its tier, its target or
\* a key, changes no document; and when a set is applied, the update goes to
\* the collection and the marker field of that set alone, whatever an earlier
\* rejected set had already selected.
C11_RejectedSetLeavesNoTrace ==
  [][MarkSetStep =>
       /\ setLog'[setIdx] = "False" =>
            /\ collsStage' = collsStage
            /\ markLog' = markLog
       /\ setLog'[setIdx] = "True" =>
            LET own == <<sets[setIdx]["target"], sets[setIdx]["stageTarget"]>>
                field == StageMarkerField(sets[setIdx]["stageTarget"])
            IN /\ targetField' = field
               /\ collSel' = own
               /\ \A key \in StageKeys \ {own} : collsStage'[key] = collsStage[key]
               /\ \A i \in DOMAIN collsStage[own] :
                    \A f \in DOMAIN collsStage[own][i].staging \ {field} :
                      collsStage'[own][i].staging[f] = collsStage[own][i].staging[f]]_vars

\* a set rejected at its target, after its tier had set the marker field of
\* XRD, is followed by an accepted set of tier Disk
C11_Witness ==
  /\ Len(setLog) = 2 /\ setLog = <<"False", "True">>
  /\ stagingFile[1]["stageTarget"] = "XRD" /\ stagingFile[1]["target"] = "nope"
  /\ stagingFile[2]["stageTarget"] = "Disk"
  /\ targetField = StageMarkerField("Disk")

\* C12: a request set with valid tier and target is accepted exactly when
\* each of its other keys is namespaced or a recognized bare name, and the
\* predicate of an accepted set is the set with every bare key k replaced by
\* "starDetails." + k, the value kept.
C12_AcceptedIffKeysKnown ==
  \A i \in DOMAIN setLog :
    (/\ "stageTarget" \in DOMAIN stagingFile[i]
     /\ stagingFile[i]["stageTarget"] \in Range(ListOfStageTargets)
     /\ "target" \in DOMAIN stagingFile[i]
     /\ stagingFile[i]["target"] \in Range(ListOfTargets))
    => /\ setLog[i] = "True" <=> ValidSet(stagingFile[i])
       /\ setLog[i] = "True" => sets[i] = PredicateOf(stagingFile[i])

\* the tar files that hold documents of a target
Containers(target) ==
  {d.fileFullPathTar : d \in {x \in Range(CollsHPSS(collHpssPicoDsts, target)) : x.isInTarFile}}

EntriesOf(target, tar) ==
  {d \in Range(CollsHPSS(collHpssPicoDsts, target)) :
     d.isInTarFile /\ d.fileFullPathTar = tar /\ d.dataClass = target}

\* C15: for every tar file, when more than 25% of its entries of the target
\* are in docsToStage, the list handed to _stageHPSSFiles names the tar file
\* and none of these entries; otherwise it names each of these entries.
C15_WholeContainerOverThreshold ==
  \A p \in DOMAIN diffOut : \A key \in DOMAIN diffOut[p] :
    \A tar \in Containers(key[1]) :
      LET entries == EntriesOf(key[1], tar)
          wanted == {d \in entries : d.filePath \in diffOut[p][key].docsToStage}
          list == Range(diffOut[p][key].listToStageFromHPSS)
      IN IF 4 * Cardinality(wanted) > Cardinality(entries)
         THEN tar \in list /\ \A d \in wanted : d.fileFullPath \notin list
         ELSE \A d \in wanted : d.fileFullPath \in list

\* a call of prepareListOfFilesToBeStaged for one stageTarget
DiffStep == spc = "diff" /\ tierIdx <= Len(ListOfStageTargets) /\ tierIdx' = tierIdx + 1

WantedMark(r, stageTarget) ==
  \E j \in DOMAIN stagingFile :
    /\ ValidSet(stagingFile[j])
    /\ stagingFile[j]["stageTarget"] = stageTarget
    /\ stagingFile[j]["target"] = r.dataClass
    /\ CanonicalMatches(r, PredicateOf(stagingFile[j]))

\* C19: when a run was stopped from outside and the next run went through to
\* its end, every staging mark is true exactly for the records that a valid
\* request set matches, as if no run had been stopped.
C19_NextPassRepairs ==
  (/\ passNo >= 2
   /\ runEnds[passNo - 1] = "cancelled"
   /\ runEnds[passNo] = "done")
  => \A r \in Range(collHpssPicoDsts) : \A st \in Range(ListOfStageTargets) :
       HpssStaging(r, StageMarkerField(st)) <=> WantedMark(r, st)

\* C20: when the diff of one (target, stageTarget) raises, the run still
\* computes the diff of every other pair.
C20_DiffFailureConfined ==
  \A p \in DOMAIN runEnds :
    runEnds[p] = "PyMongoError"
    => Cardinality(DOMAIN diffOut[p]) >= Cardinality(StageKeys) - 1

\* the run that follows a reordering of the staging file has left its mark step
ReorderedMarkStepDone ==
  /\ marksLeft # <<>>
  /\ passNo = marksLeft[1].passNo + 1
  /\ spc \in {"diff", "done", "crashed"}

\* C21: the marks of all records after the mark step are the same for every
\* order of the request sets of a staging file: the run that reads the sets
\* in another order leaves the marks the run before it left.
C21_SetOrderSameMarks ==
  ReorderedMarkStepDone => StagingMarks(collsStage) = marksLeft[1].marks

\* ------------------------------------------------------ crawlerXRD actions
MaxCat == 3        \* documents of XRD_<Target>
MaxObs == 2        \* files the walk yields

CatDoc(filePath, node) ==
  [filePath |-> filePath, target |-> "picoDst",
   storage |-> [location |-> "XRD", details |-> node]]

CatPool == {CatDoc("A", "n1"), CatDoc("B", "n1"), CatDoc("C", "n1"), CatDoc("A", "n2")}

Catalogs == UNION {[1..n -> CatPool] : n \in 0..MaxCat}

WalkPool == [filePath : {"A", "B", "D"}, linkOk : BOOLEAN, fileSize : {1}, disk : {"data01"}]

\* os.walk names every file of the tree once
Walks ==
  {w \in UNION {[1..n -> WalkPool] : n \in 0..MaxObs} :
     \A i, j \in DOMAIN w : i # j => w[i].filePath # w[j].filePath}

InitXRD ==
  /\ CrawlersIdle
  /\ collHpssPicoDsts = <<>>
  /\ StagerOff
  /\ ResolverOff
  /\ ParOff
  /\ OrderOff
  /\ xrdTarget \in {"picoDst", "picoDstGamma"}
  /\ workDirExists \in BOOLEAN
  /\ collsXRD \in Catalogs
  /\ collsNew = <<>>
  /\ collsMiss = <<>>
  /\ walk \in Walks
  /\ xpc = "idle"
  /\ walkPos = 1
  /\ listOfFilesOnNode = <<>>
  /\ listOfNewFiles = <<>>
  /\ believed = <<>>
  /\ queuedNew = <<>>
  /\ queuedMiss = <<>>

\* process(), lines 85-119
Process ==
  /\ xpc = "idle"
  /\ IF xrdTarget \notin Range(XrdListOfTargets)
     THEN /\ xpc' = "done"
          /\ UNCHANGED <<listOfFilesOnNode, believed, collsMiss, queuedMiss>>
     ELSE LET list == FilesOnNode(collsXRD, xrdTarget)
              r == InsertManyPaths(collsMiss, list)
          IN /\ listOfFilesOnNode' = list
             /\ believed' = list
             /\ IF workDirExists
                THEN /\ xpc' = "walk"
                     /\ UNCHANGED <<collsMiss, queuedMiss>>
                ELSE IF list # <<>>
                THEN /\ queuedMiss' = Append(queuedMiss, list)
                     /\ collsMiss' = r.coll
                     /\ xpc' = IF r.raised THEN "TypeError" ELSE "done"
                ELSE /\ xpc' = "done"
                     /\ UNCHANGED <<collsMiss, queuedMiss>>
  /\ UNCHANGED <<xrdTarget, workDirExists, collsXRD, collsNew, walk, walkPos,
                 listOfNewFiles, queuedNew>>
  /\ UNCHANGED <<varsHPSS, varsStager, varsResolver, varsPar, varsOrder>>

\* one turn of the loop of lines 122-153
WalkFile ==
  /\ xpc = "walk"
  /\ walkPos <= Len(walk)
  /\ LET doc == FileDoc(walk[walkPos], xrdTarget)
     IN IF ~walk[walkPos].linkOk
        THEN /\ collsMiss' = Append(collsMiss, doc)
             /\ UNCHANGED <<listOfFilesOnNode, listOfNewFiles>>
        ELSE IF doc.filePath \in Range(listOfFilesOnNode)
        THEN /\ listOfFilesOnNode' = MatchBelieved(listOfFilesOnNode, doc.filePath)
             /\ UNCHANGED <<collsMiss, listOfNewFiles>>
        ELSE /\ listOfNewFiles' = Append(listOfNewFiles, doc)
             /\ UNCHANGED <<collsMiss, listOfFilesOnNode>>
  /\ walkPos' = walkPos + 1
  /\ UNCHANGED <<xrdTarget, workDirExists, collsXRD, collsNew, walk, xpc, believed,
                 queuedNew, queuedMiss>>
  /\ UNCHANGED <<varsHPSS, varsStager, varsResolver, varsPar, varsOrder>>

\* lines 155-161, after the walk
AddToDB ==
  /\ xpc = "walk"
  /\ walkPos > Len(walk)
  /\ LET rNew == InsertManyDocs(collsNew, listOfNewFiles)
         rMiss == InsertManyPaths(collsMiss, listOfFilesOnNode)
     IN /\ IF listOfNewFiles # <<>>
           THEN /\ collsNew' = rNew.coll
                /\ queuedNew' = Append(queuedNew, listOfNewFiles)
           ELSE UNCHANGED <<collsNew, queuedNew>>
        /\ IF listOfFilesOnNode # <<>>
           THEN /\ collsMiss' = rMiss.coll
                /\ queuedMiss' = Append(queuedMiss, listOfFilesOnNode)
                /\ xpc' = IF rMiss.raised THEN "TypeError" ELSE "done"
           ELSE /\ xpc' = "done"
                /\ UNCHANGED <<collsMiss, queuedMiss>>
  /\ UNCHANGED <<xrdTarget, workDirExists, collsXRD, walk, walkPos, listOfFilesOnNode,
                 listOfNewFiles, believed>>
  /\ UNCHANGED <<varsHPSS, varsStager, varsResolver, varsPar, varsOrder>>

NextXRD ==
  \/ Process
  \/ WalkFile
  \/ AddToDB

SpecXRD == InitXRD /\ [][NextXRD]_vars

\* ----------------------------------------------- claims on the XRD crawler
\* what all the insert_many calls on a sub-collection were handed
RECURSIVE Flatten(_)
Flatten(calls) == IF calls = <<>> THEN <<>> ELSE Head(calls) \o Flatten(Tail(calls))

QueuedNewPaths == {d.filePath : d \in Range(Flatten(queuedNew))}
QueuedMissPaths == Range(Flatten(queuedMiss))
Observed == {walk[i].filePath : i \in DOMAIN walk}
ProcessEnded == xpc \in {"done", "TypeError"}

\* the case of C7: a known target, the working directory there, every walked
\* file with a valid link, no path twice in the believed-resident list
C7_Case ==
  /\ ProcessEnded
  /\ xrdTarget \in Range(XrdListOfTargets)
  /\ workDirExists
  /\ \A i \in DOMAIN walk : walk[i].linkOk
  /\ \A i, j \in DOMAIN believed : i # j => believed[i] # believed[j]

\* C7: with the working directory there, believed-resident set B and observed
\* files O all with valid links, process() hands the "new" sub-collection
\* exactly O \ B and the "missing" sub-collection exactly B \ O.
C7_NewAndMissing ==
  C7_Case =>
    /\ QueuedNewPaths = Observed \ Range(believed)
    /\ QueuedMissPaths = Range(believed) \ Observed

\* B = {A, B, C}, O = {A, D}: new = {D}, missing = {B, C}
C7_Witness ==
  /\ C7_Case
  /\ Range(believed) = {"A", "B", "C"}
  /\ Observed = {"A", "D"}
  /\ QueuedNewPaths = {"D"}
  /\ QueuedMissPaths = {"B", "C"}

\* the walk has begun: a known target whose working directory is there
Walked == xpc \in {"walk", "done", "TypeError"} /\ workDirExists

\* C16: every walked file with a broken link has a document in the _miss
\* collection with issue brokenLink and fileSize -1, in the believed-resident
\* list or not, and is not among the new files.
C16_BrokenLinkRecorded ==
  Walked =>
    \A i \in 1..(walkPos - 1) :
      ~walk[i].linkOk =>
        /\ \E d \in Range(collsMiss) :
             /\ d.filePath = walk[i].filePath
             /\ "issue" \in DOMAIN d /\ d.issue = "brokenLink"
             /\ d.fileSize = -1
        /\ \A d \in Range(listOfNewFiles) \cup Range(collsNew) : d.filePath # walk[i].filePath
        /\ walk[i].filePath \notin QueuedNewPaths

\* a run that met one broken link of a believed-resident path and one of a
\* path that is not believed resident
C16_Witness ==
  /\ Walked /\ ProcessEnded
  /\ \E i, j \in DOMAIN walk :
       /\ ~walk[i].linkOk /\ walk[i].filePath \in Range(believed)
       /\ ~walk[j].linkOk /\ walk[j].filePath \notin Range(believed)

\* the paths the catalog believes resident on this node for the target
BelievedResident ==
  {d.filePath : d \in {x \in Range(collsXRD) :
                         /\ x.target = xrdTarget
                         /\ x.storage.location = "XRD"
                         /\ x.storage.details = NodeName}}

\* process() has ended for a known target whose working directory is not there
NoWorkDirCase ==
  /\ ProcessEnded
  /\ xrdTarget \in Range(XrdListOfTargets)
  /\ ~workDirExists

\* C22: when the working directory of the target does not exist, process()
\* queues every believed-resident path to the "missing" sub-collection in one
\* call, queues nothing to "new" and observes no file; when no path is
\* believed resident it makes no call at all.
C22_NoWorkDirAllMissing ==
  NoWorkDirCase =>
    /\ QueuedMissPaths = BelievedResident
    /\ Len(queuedMiss) = (IF BelievedResident = {} THEN 0 ELSE 1)
    /\ Len(Flatten(queuedMiss)) = Len(believed)
    /\ queuedNew = <<>> /\ collsNew = <<>> /\ listOfNewFiles = <<>>
    /\ walkPos = 1
    /\ \A i \in DOMAIN collsMiss : "issue" \notin DOMAIN collsMiss[i]
    /\ BelievedResident = {} => collsMiss = <<>>

\* two paths believed resident on this node, one on another node, files in
\* the tree that a walk would have named
C22_Witness ==
  /\ NoWorkDirCase
  /\ Cardinality(BelievedResident) >= 2
  /\ \E i \in DOMAIN collsXRD : collsXRD[i].storage.details # NodeName
  /\ walk # <<>>
  /\ Len(Flatten(queuedMiss)) >= 2

\* how often process() has handed a path to the "new" sub-collection
NewEntries(filePath) ==
  Cardinality({i \in DOMAIN Flatten(queuedNew) : Flatten(queuedNew)[i].filePath = filePath})

\* how often process() has handed a path to the "missing" sub-collection:
\* the documents of line 140 and the paths of the lists of lines 108 and 161
MissEntries(filePath) ==
  Cardinality({i \in DOMAIN collsMiss : collsMiss[i].filePath = filePath})
  + Cardinality({i \in DOMAIN Flatten(queuedMiss) : Flatten(queuedMiss)[i] = filePath})

\* C25: in one run of process(), on a believed-resident list without
\* repeated paths, every observed or believed-resident path is handed to at
\* most one of the "new" and "missing" sub-collections, and at most once.
C25_OneEntryPerPath ==
  (/\ ProcessEnded
   /\ xrdTarget \in Range(XrdListOfTargets)
   /\ \A i, j \in DOMAIN believed : i # j => believed[i] # believed[j])
  => \A filePath \in Observed \cup Range(believed) :
       NewEntries(filePath) + MissEntries(filePath) <= 1

\* ------------------------------------------------- _makePicoDstDoc actions
MaxKeys == 3       \* keys of pathKeysSchema
MaxDirs == 3       \* folders of a filePath

\* keys as __init__ is given them: 'runyear', 'day%d', 'runnumber%d', 'energy%f'
KeyPool == {<<"runyear">>, <<"day", "d">>, <<"runnumber", "d">>, <<"energy", "f">>}

DirPool == {<<"R", "u", "n", "1", "0">>, <<"1", "4", "9">>, <<"1", "1", "1", "4", "9", "0", "8", "1">>, <<"0", "3", "5">>}

FilePool ==
  {<<"f", "i", "l", "e", ".", "p", "i", "c", "o", "D", "s", "t", ".", "r", "o", "o", "t">>,
   <<"s", "t", "_", "m", "b", "_", "1", "1", "1", "4", "9", "0", "8", "1", "_", "r", "a", "w", "_", "1", ".", "p", "i", "c", "o", "D", "s", "t", ".", "r", "o", "o", "t">>}

InitResolver ==
  /\ CrawlersIdle
  /\ collHpssPicoDsts = <<>>
  /\ StagerOff
  /\ XRDOff
  /\ ParOff
  /\ OrderOff
  /\ pathKeysSchema \in UNION {[1..n -> KeyPool] : n \in 1..MaxKeys}
  /\ \E dirs \in UNION {[1..n -> DirPool] : n \in 0..MaxDirs} : \E f \in FilePool :
       cleanPathTokenized = Append(dirs, f)
  /\ rpc = "idle"
  /\ docStarDetails = <<>>

\* lines 253-275 of _makePicoDstDoc
MakeStarDetails ==
  /\ rpc = "idle"
  /\ LET r == StarDetails(TypedPathKeys(pathKeysSchema), cleanPathTokenized)
     IN /\ rpc' = IF r.raised = "" THEN "done" ELSE r.raised
        /\ docStarDetails' = r.details
  /\ UNCHANGED <<pathKeysSchema, cleanPathTokenized>>
  /\ UNCHANGED <<varsHPSS, varsStager, varsXRD, varsPar, varsOrder>>

NextResolver == MakeStarDetails

SpecResolver == InitResolver /\ [][NextResolver]_vars

\* ---------------------------------------------- claims on the starDetails
ResolverEnded == rpc \notin {"off", "idle"}

\* the folders of the path: its tokens without the file name
Folders == SubSeq(cleanPathTokenized, 1, Len(cleanPathTokenized) - 1)

\* a token that is no number is paired with a key of a number type
Uncoercible ==
  \E i \in 1..Min(Len(pathKeysSchema), Len(cleanPathTokenized)) :
    /\ TypedPathKeys(pathKeysSchema)[i][2] \in {"d", "f"}
    /\ ~IsDigits(cleanPathTokenized[i])

RECURSIVE DropLeadingZeros(_)
DropLeadingZeros(token) ==
  IF Len(token) > 1 /\ token[1] = "0" THEN DropLeadingZeros(Tail(token)) ELSE token

\* C14: the keys of the schema are paired with the tokens of the path by
\* position; the value of key i is token i as a string for type s and the
\* number that token i writes for type d (and f); starDetails has no other
\* key, but stream and picoType for a file name that begins with st_.
C14_PairsByPosition ==
  rpc = "done" =>
    LET keys == TypedPathKeys(pathKeysSchema)
        n == Min(Len(keys), Len(cleanPathTokenized))
        fileName == cleanPathTokenized[Len(cleanPathTokenized)]
    IN /\ DOMAIN docStarDetails \ {"stream", "picoType"} = {keys[i][1] : i \in 1..n}
       /\ SubSeq(fileName, 1, 3) # <<"s", "t", "_">>
            => DOMAIN docStarDetails = {keys[i][1] : i \in 1..n}
       /\ \A i \in 1..n :
            (\A j \in (i + 1)..n : keys[j][1] # keys[i][1]) =>
              LET value == docStarDetails[keys[i][1]]
              IN IF keys[i][2] = "s"
                 THEN value = [t |-> "str", v |-> cleanPathTokenized[i]]
                 ELSE /\ value.t = (IF keys[i][2] = "d" THEN "int" ELSE "float")
                      /\ IntToChars(value.v) = DropLeadingZeros(cleanPathTokenized[i])

\* schema runyear, day%d, runnumber%d and Run10/149/11149081/file.picoDst.root
\* give {runyear: "Run10", day: 149, runnumber: 11149081}
C14_Witness ==
  /\ rpc = "done"
  /\ pathKeysSchema = <<<<"runyear">>, <<"day", "d">>, <<"runnumber", "d">>>>
  /\ cleanPathTokenized = <<<<"R", "u", "n", "1", "0">>, <<"1", "4", "9">>, <<"1", "1", "1", "4", "9", "0", "8", "1">>,
                            <<"f", "i", "l", "e", ".", "p", "i", "c", "o", "D", "s", "t", ".", "r", "o", "o", "t">>>>
  /\ docStarDetails = [runyear |-> [t |-> "str", v |-> <<"R", "u", "n", "1", "0">>],
                       day |-> [t |-> "int", v |-> 149],
                       runnumber |-> [t |-> "int", v |-> 11149081]]

\* --------------------------------------------- two stagers at the same time
\* main takes no lock and leaves no sign of a run in the store: a second
\* process can be started while the first is running.  Every step below holds
\* the store calls of one statement.
seqStager == <<sets, spc, setIdx, tierIdx, targetField, collSel, passNo, setLog, markLog,
               diffOut, flaggedLog, runEnds>>

InitStagerPar == InitStagerFaults

\* main, __init__
ParStart(p) ==
  /\ runs[p].pc = "idle"
  /\ runs' = [runs EXCEPT ![p] = [ParIdle EXCEPT !.pc = "reset", !.sets = stagingFile]]
  /\ UNCHANGED <<stagingFile, collsStage, collsXRDNew, seqStager>>
  /\ UNCHANGED <<varsHPSS, varsXRD, varsResolver, varsOrder>>

\* markFilesToBeStaged, line 121
ParReset(p) ==
  /\ runs[p].pc = "reset"
  /\ collsStage' = ResetAllStagingMarks(collsStage)
  /\ runs' = [runs EXCEPT ![p].pc = "mark"]
  /\ UNCHANGED <<stagingFile, collsXRDNew, seqStager>>
  /\ UNCHANGED <<varsHPSS, varsXRD, varsResolver, varsOrder>>

\* markFilesToBeStaged, lines 123-126
ParMarkSet(p) ==
  /\ runs[p].pc = "mark"
  /\ runs[p].setIdx <= Len(runs[p].sets)
  /\ \E o \in PrepareSet(runs[p].sets[runs[p].setIdx], runs[p].targetField, runs[p].coll) :
       /\ runs' = [runs EXCEPT ![p] =
                     [@ EXCEPT !.sets[runs[p].setIdx] = o.stageSet,
                               !.targetField = o.targetField,
                               !.coll = o.coll,
                               !.setIdx = @ + 1,
                               !.pc = IF o.ret = "RuntimeError" THEN "crashed" ELSE "mark"]]
       /\ IF o.ret = "True"
          THEN collsStage' = [collsStage EXCEPT
                                ![o.coll] = UpdateManyMark(@, o.stageSet, o.targetField)]
          ELSE UNCHANGED collsStage
  /\ UNCHANGED <<stagingFile, collsXRDNew, seqStager>>
  /\ UNCHANGED <<varsHPSS, varsXRD, varsResolver, varsOrder>>

\* main, line 276
ParListOfFiles(p) ==
  /\ runs[p].pc = "mark"
  /\ runs[p].setIdx > Len(runs[p].sets)
  /\ runs' = [runs EXCEPT ![p].pc = "diff"]
  /\ UNCHANGED <<stagingFile, collsStage, collsXRDNew, seqStager>>
  /\ UNCHANGED <<varsHPSS, varsXRD, varsResolver, varsOrder>>

\* prepareListOfFilesToBeStaged(stageTarget)
ParPrepareList(p) ==
  /\ runs[p].pc = "diff"
  /\ runs[p].tierIdx <= Len(ListOfStageTargets)
  /\ LET stageTarget == ListOfStageTargets[runs[p].tierIdx]
     IN collsStage' =
          [key \in DOMAIN collsStage |->
             IF key[2] = stageTarget
             THEN FlagUnstage(collsStage[key], DiffOf(key[1], stageTarget).docsToRemove)
             ELSE collsStage[key]]
  /\ runs' = [runs EXCEPT ![p].tierIdx = @ + 1]
  /\ UNCHANGED <<stagingFile, collsXRDNew, seqStager>>
  /\ UNCHANGED <<varsHPSS, varsXRD, varsResolver, varsOrder>>

\* main, lines 282-284
ParEnd(p) ==
  /\ runs[p].pc = "diff"
  /\ runs[p].tierIdx > Len(ListOfStageTargets)
  /\ runs' = [runs EXCEPT ![p].pc = "done"]
  /\ UNCHANGED <<stagingFile, collsStage, collsXRDNew, seqStager>>
  /\ UNCHANGED <<varsHPSS, varsXRD, varsResolver, varsOrder>>

NextStagerPar ==
  \E p \in Stagers :
    \/ ParStart(p)
    \/ ParReset(p)
    \/ ParMarkSet(p)
    \/ ParListOfFiles(p)
    \/ ParPrepareList(p)
    \/ ParEnd(p)

SpecStagerPar == InitStagerPar /\ [][NextStagerPar]_vars

\* ------------------------------------- claims on stagers at the same time
InFlight(p) == runs[p].pc \in {"reset", "mark", "diff"}

\* C18: at most one run is between the start of its reset and the end of its
\* diff at any time, so the reset of one run never comes after the mark of
\* another.
C18_OnePassInFlight == Cardinality({p \in Stagers : InFlight(p)}) <= 1

====
